---- MODULE Spec2Model ----
(***************************************************************************)
(* FixedDepthTreeMap (src/RecursiveMap.ts): a map from array keys of a     *)
(* fixed length to values, stored as a tree of insertion-ordered Maps.     *)
(*                                                                         *)
(* JavaScript values are tagged records, so that values of different       *)
(* JavaScript types can be compared:                                       *)
(*   [t |-> "undefined"], [t |-> "str", s |-> ...], [t |-> "bool", ...],   *)
(*   [t |-> "num", n |-> ...], [t |-> "map", es |-> <<entries>>]           *)
(* A Map is the sequence of its entries [key, value] in insertion order.   *)
(* The tree is the nested value of root: a child Map is the value of an    *)
(* entry of its parent, and a write through a reference to a nested Map    *)
(* is a replacement of that Map at its path.                               *)
(***************************************************************************)
EXTENDS Integers, Sequences, FiniteSets, TLC

VARIABLES
    status,     \* "none": not constructed; "live": constructed; "threw": the constructor threw
    keyLength,  \* this.keyLength
    root,       \* this.root
    op,         \* history: the last call that may change the map ("none" before any)
    ret,        \* history: what that call returned
    pre,        \* history: whether the key of that call was present just before it
                \* (for clear: whether the map held an entry)
    setLog,     \* history: the <<key, value>> pairs set since the map was empty, in call order
    distinctSets, \* history: only set calls on pairwise distinct keys were made since the map was empty
    seen,       \* history: per node path, the components in the order they were first seen there
    live        \* history: per node path, the components now present, in the order of their insertion

vars == <<status, keyLength, root, op, ret, pre, setLog, distinctSets, seen, live>>

----------------------------------------------------------------------------
(* Bounds *)

\* the largest keyLength a map is constructed with
MaxDepth == 3
\* the largest number of Map entries (child Maps and leaves together) the tree holds
MaxCells == 4

\* the same, where the set calls made on the map since it was empty are recorded
MaxLogCells == 5

\* the same, where the values stored are the falsy ones
MaxFalsyCells == 4

\* the largest keyLength and the largest number of Map entries where the order
\* of the components of every node is recorded
MaxOrderDepth == 2
MaxOrderCells == 5

\* the keyLength arguments that the constructor rejects, and those it accepts
InvalidDepths == {-1, 0}
ValidDepths == 1..MaxDepth

----------------------------------------------------------------------------
(* JavaScript values *)

Undefined == [t |-> "undefined"]
Str(s) == [t |-> "str", s |-> s]
Bool(b) == [t |-> "bool", b |-> b]
Num(n) == [t |-> "num", n |-> n]
MapOf(es) == [t |-> "map", es |-> es]
This == [t |-> "this"]
Thrown == [t |-> "throw"]
Iter(items) == [t |-> "iterator", items |-> items]

\* JavaScript truthiness (the values of this model: objects are truthy, undefined is not)
Truthy(x) ==
    CASE x.t = "undefined" -> FALSE
      [] x.t = "bool" -> x.b
      [] x.t = "num" -> x.n # 0
      [] x.t = "str" -> x.s # ""
      [] OTHER -> TRUE

\* the key components callers use (undefined is one: a hole or an explicit
\* undefined in the key array), and the values they store
Components == {Str("a"), Undefined}
Values == {Str("X"), Undefined}

RECURSIVE SeqsOfLen(_, _)
SeqsOfLen(S, n) ==
    IF n = 0 THEN {<<>>}
    ELSE {Append(s, c) : s \in SeqsOfLen(S, n - 1), c \in S}

\* the key arrays callers pass to a map of key length n: shorter than n (the
\* empty array included), of length n, and longer than n
AllKeys == UNION {SeqsOfLen(Components, m) : m \in 0..(MaxDepth + 1)}
KeysOf(n) == {key \in AllKeys : Len(key) <= n + 1}

\* key[i] of a JavaScript array (0-based): undefined past the end
KeyAt(key, i) == IF 0 <= i /\ i < Len(key) THEN key[i + 1] ELSE Undefined

----------------------------------------------------------------------------
(* The built-in Map: insertion-ordered, keys compared by SameValueZero *)

EmptyMap == MapOf(<<>>)

MapHas(m, k) == \E i \in 1..Len(m.es) : m.es[i].key = k

MapIndex(m, k) == CHOOSE i \in 1..Len(m.es) : m.es[i].key = k

MapGet(m, k) == IF MapHas(m, k) THEN m.es[MapIndex(m, k)].value ELSE Undefined

\* a set that removes a key that is present and appends it again
MapSetMovesKey(m, k, v) ==
    MapOf(Append(SelectSeq(m.es, LAMBDA e : e.key # k), [key |-> k, value |-> v]))

\* set keeps the position of a key that is present and appends a new one
MapSet(m, k, v) ==
    IF MapHas(m, k)
    THEN MapOf([m.es EXCEPT ![MapIndex(m, k)].value = v])
    ELSE MapOf(Append(m.es, [key |-> k, value |-> v]))

\* a delete that removes every entry of the Map
MapDeleteEmpties(m, k) == MapOf(<<>>)

MapDelete(m, k) == MapOf(SelectSeq(m.es, LAMBDA e : e.key # k))

MapSize(m) == Len(m.es)

MapClear(m) == MapOf(<<>>)

----------------------------------------------------------------------------
(* References into the tree *)

\* the Map reached from node by following path (a sequence of components)
RECURSIVE NodeAt(_, _)
NodeAt(node, path) ==
    IF path = <<>> THEN node
    ELSE NodeAt(MapGet(node, Head(path)), Tail(path))

\* node with the Map at path replaced by m: a mutation of a Map held by reference
\* shows in the tree at the place of that Map, which keeps its position
RECURSIVE StoreAt(_, _, _)
StoreAt(node, path, m) ==
    IF path = <<>> THEN m
    ELSE LET i == MapIndex(node, Head(path))
         IN  MapOf([node.es EXCEPT ![i].value = StoreAt(node.es[i].value, Tail(path), m)])

----------------------------------------------------------------------------
(* Private methods of FixedDepthTreeMap *)

\* a leaf key that is the last component of the array passed
getLeafKeyLast(key) == KeyAt(key, Len(key) - 1)

\* getLeafKey: the component that addresses the leaf in its branch
getLeafKey(key) == KeyAt(key, keyLength - 1)

\* The loop of getBranch. parent is the Map the loop variable refers to, held
\* with the path of that Map in the tree. Result: the tree (with the Maps the
\* walk created), the path of the branch, and the branch itself, or undefined
\* when a Map is missing and create is false.
RECURSIVE getBranchLoop(_, _, _, _, _, _)
\* a loop that runs while i < keyLength: it walks one component too far
getBranchLoopTooDeep(tree, key, create, i, parentPath, parent) ==
    IF ~(i < keyLength)
    THEN [tree |-> tree, path |-> parentPath, branch |-> parent]
    ELSE LET branchKey == KeyAt(key, i)
             child == MapGet(parent, branchKey)
         IN  IF Truthy(child)
             THEN getBranchLoop(tree, key, create, i + 1, Append(parentPath, branchKey), child)
             ELSE IF create
             THEN getBranchLoop(StoreAt(tree, parentPath, MapSet(parent, branchKey, EmptyMap)),
                                key, create, i + 1, Append(parentPath, branchKey), EmptyMap)
             ELSE [tree |-> tree, path |-> parentPath, branch |-> Undefined]

\* a loop that, creating, links again at the end of its parent each child it
\* walks through
getBranchLoopRelinks(tree, key, create, i, parentPath, parent) ==
    IF ~(i < keyLength - 1)
    THEN [tree |-> tree, path |-> parentPath, branch |-> parent]
    ELSE LET branchKey == KeyAt(key, i)
             child == MapGet(parent, branchKey)
         IN  IF Truthy(child)
             THEN getBranchLoop(IF create
                                THEN StoreAt(tree, parentPath,
                                             MapSetMovesKey(parent, branchKey, child))
                                ELSE tree,
                                key, create, i + 1, Append(parentPath, branchKey), child)
             ELSE IF create
             THEN getBranchLoop(StoreAt(tree, parentPath, MapSet(parent, branchKey, EmptyMap)),
                                key, create, i + 1, Append(parentPath, branchKey), EmptyMap)
             ELSE [tree |-> tree, path |-> parentPath, branch |-> Undefined]

getBranchLoop(tree, key, create, i, parentPath, parent) ==
    IF ~(i < keyLength - 1)
    THEN [tree |-> tree, path |-> parentPath, branch |-> parent]
    ELSE LET branchKey == KeyAt(key, i)
             child == MapGet(parent, branchKey)
         IN  IF Truthy(child)
             THEN getBranchLoop(tree, key, create, i + 1, Append(parentPath, branchKey), child)
             ELSE IF create
             THEN getBranchLoop(StoreAt(tree, parentPath, MapSet(parent, branchKey, EmptyMap)),
                                key, create, i + 1, Append(parentPath, branchKey), EmptyMap)
             ELSE [tree |-> tree, path |-> parentPath, branch |-> Undefined]

\* a getBranch that creates the missing Maps whatever create is
getBranchCreating(tree, key, create) == getBranchLoop(tree, key, TRUE, 0, <<>>, tree)

getBranch(tree, key, create) == getBranchLoop(tree, key, create, 0, <<>>, tree)

\* depthFirstIterate, run to its end: the pairs <<key path, value>> it yields, in
\* order, or the fact that it threw
RECURSIVE depthFirstIterate(_, _, _)
RECURSIVE IterateBranches(_, _, _, _)
\* a second loop that yields the pairs of the later children first
IterateBranchesReversed(parentKeyPath, maxKeyLength, parent, i) ==
    IF i > Len(parent.es)
    THEN [threw |-> FALSE, items |-> <<>>]
    ELSE LET childKeyPath == Append(parentKeyPath, parent.es[i].key)
             first == depthFirstIterate(childKeyPath, maxKeyLength, parent.es[i].value)
             rest == IterateBranches(parentKeyPath, maxKeyLength, parent, i + 1)
         IN  IF first.threw THEN first
             ELSE [threw |-> rest.threw, items |-> rest.items \o first.items]

\* a traversal whose leaf loop yields the path of the branch, not of the leaf
depthFirstIterateParentPath(parentKeyPath, maxKeyLength, parent) ==
    IF maxKeyLength = 0
    THEN [threw |-> TRUE, items |-> <<>>]
    ELSE IF Len(parentKeyPath) + 1 = maxKeyLength
    THEN [threw |-> FALSE,
          items |-> [i \in 1..Len(parent.es) |-> <<parentKeyPath, parent.es[i].value>>]]
    ELSE IterateBranches(parentKeyPath, maxKeyLength, parent, 1)

depthFirstIterate(parentKeyPath, maxKeyLength, parent) ==
    IF maxKeyLength = 0
    THEN [threw |-> TRUE, items |-> <<>>]
    ELSE IF Len(parentKeyPath) + 1 = maxKeyLength
    THEN [threw |-> FALSE,
          items |-> [i \in 1..Len(parent.es) |->
                        <<Append(parentKeyPath, parent.es[i].key), parent.es[i].value>>]]
    ELSE IterateBranches(parentKeyPath, maxKeyLength, parent, 1)

\* the second loop of depthFirstIterate, from the i-th entry of parent on
IterateBranches(parentKeyPath, maxKeyLength, parent, i) ==
    IF i > Len(parent.es)
    THEN [threw |-> FALSE, items |-> <<>>]
    ELSE LET childKeyPath == Append(parentKeyPath, parent.es[i].key)
             first == depthFirstIterate(childKeyPath, maxKeyLength, parent.es[i].value)
             rest == IterateBranches(parentKeyPath, maxKeyLength, parent, i + 1)
         IN  IF first.threw THEN first
             ELSE [threw |-> rest.threw, items |-> first.items \o rest.items]

----------------------------------------------------------------------------
(* What the public methods return and how they leave the tree *)

RECURSIVE SumSizes(_)
SumSizes(items) ==
    IF items = <<>> THEN 0 ELSE MapSize(Head(items)[2]) + SumSizes(Tail(items))

\* a size that is the entry count of the root whatever the key length
sizeOfRoot(tree) == Num(MapSize(tree))

\* a size without the case of key length 1: it always sums the branches
sizeBySummingBranches(tree) ==
    LET it == depthFirstIterate(<<>>, keyLength - 1, tree)
    IN  IF it.threw THEN Thrown ELSE Num(SumSizes(it.items))

\* get size(): a number, or Thrown
sizeResult(tree) ==
    IF keyLength = 1
    THEN Num(MapSize(tree))
    ELSE LET it == depthFirstIterate(<<>>, keyLength - 1, tree)
         IN  IF it.threw THEN Thrown ELSE Num(SumSizes(it.items))

\* an entries that traverses as size does, one level short
entriesOfBranches(tree) ==
    LET it == depthFirstIterate(<<>>, keyLength - 1, tree)
    IN  IF it.threw THEN Thrown ELSE Iter(it.items)

\* entries(), traversed to its end
entriesResult(tree) ==
    LET it == depthFirstIterate(<<>>, keyLength, tree)
    IN  IF it.threw THEN Thrown ELSE Iter(it.items)

\* keys(), traversed to its end: the key of each pair of entries()
keysResult(tree) ==
    LET e == entriesResult(tree)
    IN  IF e = Thrown THEN Thrown
        ELSE Iter([i \in 1..Len(e.items) |-> e.items[i][1]])

\* values(), traversed to its end: the value of each pair of entries()
valuesResult(tree) ==
    LET e == entriesResult(tree)
    IN  IF e = Thrown THEN Thrown
        ELSE Iter([i \in 1..Len(e.items) |-> e.items[i][2]])

\* forEach(callbackfn): the arguments <<value, key>> of the calls of
\* callbackfn, in order, or Thrown (callbackfn itself returns normally)
forEachResult(tree) ==
    LET e == entriesResult(tree)
    IN  IF e = Thrown THEN Thrown
        ELSE Iter([i \in 1..Len(e.items) |-> <<e.items[i][2], e.items[i][1]>>])

\* get: the tree afterwards and the value returned
getResult(tree, key) ==
    LET b == getBranch(tree, key, FALSE)
    IN  [tree |-> b.tree,
         ret |-> IF Truthy(b.branch) THEN MapGet(b.branch, getLeafKey(key)) ELSE b.branch]

\* a has that tests the stored value, not the presence of the key
hasByTruthiness(tree, key) ==
    LET b == getBranch(tree, key, FALSE)
    IN  [tree |-> b.tree,
         ret |-> Bool(IF Truthy(b.branch)
                      THEN Truthy(MapGet(b.branch, getLeafKey(key))) ELSE FALSE)]

\* a has that is get(key) !== undefined
hasByDefinedValue(tree, key) ==
    LET b == getBranch(tree, key, FALSE)
    IN  [tree |-> b.tree,
         ret |-> Bool(IF Truthy(b.branch)
                      THEN MapGet(b.branch, getLeafKey(key)) # Undefined ELSE FALSE)]

\* has: the tree afterwards and the boolean returned
hasResult(tree, key) ==
    LET b == getBranch(tree, key, FALSE)
    IN  [tree |-> b.tree,
         ret |-> Bool(IF Truthy(b.branch) THEN MapHas(b.branch, getLeafKey(key)) ELSE FALSE)]

\* a delete that reports true whenever the branch exists
deleteReportsBranch(tree, key) ==
    LET b == getBranch(tree, key, FALSE)
    IN  IF ~Truthy(b.branch)
        THEN [tree |-> b.tree, ret |-> Bool(FALSE)]
        ELSE [tree |-> StoreAt(b.tree, b.path, MapDelete(b.branch, getLeafKey(key))),
              ret |-> Bool(TRUE)]

\* a delete that unlinks from its parent a branch it has emptied
deletePrunes(tree, key) ==
    LET b == getBranch(tree, key, FALSE)
    IN  IF ~Truthy(b.branch)
        THEN [tree |-> b.tree, ret |-> Bool(FALSE)]
        ELSE LET emptied == MapDelete(b.branch, getLeafKey(key))
                 stored == StoreAt(b.tree, b.path, emptied)
                 parentPath == SubSeq(b.path, 1, Len(b.path) - 1)
             IN  [tree |-> IF emptied = EmptyMap /\ b.path # <<>>
                           THEN StoreAt(stored, parentPath,
                                        MapDelete(NodeAt(stored, parentPath),
                                                  b.path[Len(b.path)]))
                           ELSE stored,
                  ret |-> Bool(MapHas(b.branch, getLeafKey(key)))]

\* delete: the tree afterwards and the boolean returned
deleteResult(tree, key) ==
    LET b == getBranch(tree, key, FALSE)
    IN  IF ~Truthy(b.branch)
        THEN [tree |-> b.tree, ret |-> Bool(FALSE)]
        ELSE [tree |-> StoreAt(b.tree, b.path, MapDelete(b.branch, getLeafKey(key))),
              ret |-> Bool(MapHas(b.branch, getLeafKey(key)))]

\* set: the tree afterwards
setResult(tree, key, value) ==
    LET b == getBranch(tree, key, TRUE)
    IN  StoreAt(b.tree, b.path, MapSet(b.branch, getLeafKey(key), value))

\* a clear that empties the child Maps of the root and keeps the root's entries
clearChildren(tree) ==
    IF keyLength = 1 THEN MapClear(tree)
    ELSE MapOf([i \in 1..Len(tree.es) |-> [key |-> tree.es[i].key, value |-> EmptyMap]])

clearResult(tree) == MapClear(tree)

----------------------------------------------------------------------------
(* UntypedTreeMap (src/unnamed/part_000): the same class without type
   parameters. Its constructor, clear, delete, get, has, set, getBranch and
   getLeafKey have the text of those of FixedDepthTreeMap, so that the same
   calls build the same tree; its size has no case for key length 1 and its
   depthFirstIterate has no check of maxKeyLength. *)

\* for (const [key, value] of x): the pairs the loop binds, or the TypeError
\* of a value that is not iterable. A Map gives its entries; a string gives
\* its characters, each destructured into itself and undefined (the strings of
\* this model have one character); undefined, booleans and numbers throw.
ForOf(x) ==
    CASE x.t = "map" -> [threw |-> FALSE, es |-> x.es]
      [] x.t = "str" ->
            [threw |-> FALSE,
             es |-> IF x.s = "" THEN <<>> ELSE <<[key |-> Str(x.s), value |-> Undefined]>>]
      [] OTHER -> [threw |-> TRUE, es |-> <<>>]

RECURSIVE untypedDepthFirstIterate(_, _, _)
RECURSIVE untypedIterateBranches(_, _, _, _)
untypedDepthFirstIterate(parentKeyPath, maxKeyLength, parent) ==
    LET of == ForOf(parent)
    IN  IF of.threw
        THEN [threw |-> TRUE, items |-> <<>>]
        ELSE IF Len(parentKeyPath) + 1 = maxKeyLength
        THEN [threw |-> FALSE,
              items |-> [i \in 1..Len(of.es) |->
                            <<Append(parentKeyPath, of.es[i].key), of.es[i].value>>]]
        ELSE untypedIterateBranches(parentKeyPath, maxKeyLength, of.es, 1)

\* the second loop of depthFirstIterate, from the i-th pair of es on
untypedIterateBranches(parentKeyPath, maxKeyLength, es, i) ==
    IF i > Len(es)
    THEN [threw |-> FALSE, items |-> <<>>]
    ELSE LET childKeyPath == Append(parentKeyPath, es[i].key)
             first == untypedDepthFirstIterate(childKeyPath, maxKeyLength, es[i].value)
             rest == untypedIterateBranches(parentKeyPath, maxKeyLength, es, i + 1)
         IN  IF first.threw THEN first
             ELSE [threw |-> rest.threw, items |-> first.items \o rest.items]

\* get size(): a number, or Thrown
untypedSizeResult(tree) ==
    LET it == untypedDepthFirstIterate(<<>>, keyLength - 1, tree)
    IN  IF it.threw THEN Thrown ELSE Num(SumSizes(it.items))

\* entries(), traversed to its end
untypedEntriesResult(tree) ==
    LET it == untypedDepthFirstIterate(<<>>, keyLength, tree)
    IN  IF it.threw THEN Thrown ELSE Iter(it.items)

untypedGetResult(tree, key) == getResult(tree, key)
untypedHasResult(tree, key) == hasResult(tree, key)
untypedDeleteResult(tree, key) == deleteResult(tree, key)
untypedSetResult(tree, key, value) == setResult(tree, key, value)
untypedClearResult(tree) == clearResult(tree)

----------------------------------------------------------------------------
(* KeyConstrainedMap: a wrapper that holds a FixedDepthTreeMap in its field
   map, constructed with the wrapper's depth. Its type parameters constrain
   the keys and values at compile time only. map below is the tree of that
   FixedDepthTreeMap. *)

\* a set that forwards the key and stores no value
kcmSetDropsValue(map, key, value) ==
    [map |-> setResult(map, key, Undefined), ret |-> This]

\* set: the tree of this.map afterwards, and what this.map.set returned (the
\* FixedDepthTreeMap itself)
kcmSet(map, key, value) ==
    [map |-> setResult(map, key, value), ret |-> This]

\* get: what this.map.get returns
kcmGet(map, key) == getResult(map, key).ret

\* entries: what this.map.entries yields
kcmEntries(map) == entriesResult(map)

----------------------------------------------------------------------------
(* Vocabulary of the claims *)

\* norm(k): the first keyLength components of k, a missing position filled with undefined
Norm(key) == [i \in 1..keyLength |-> IF i <= Len(key) THEN key[i] ELSE Undefined]

\* every normalised key of the map
NormKeys == {key \in AllKeys : Len(key) = keyLength}


\* the number of Map entries in the tree: child Maps and leaves together
RECURSIVE Cells(_, _)
RECURSIVE CellsFrom(_, _, _)
Cells(node, level) ==
    Len(node.es) + (IF level < keyLength - 1 THEN CellsFrom(node, level, 1) ELSE 0)

CellsFrom(node, level, i) ==
    IF i > Len(node.es) THEN 0
    ELSE Cells(node.es[i].value, level + 1) + CellsFrom(node, level, i + 1)

\* a history of components per node path: a function from the paths recorded
\* so far to the sequence of components recorded at each
NoHistory == [p \in {} |-> <<>>]

InSeq(x, s) == \E i \in 1..Len(s) : s[i] = x

At(h, p) == IF p \in DOMAIN h THEN h[p] ELSE <<>>

\* the proper prefixes of norm(key): the paths of the Maps on the way to its leaf
PrefixesOf(key) == {SubSeq(Norm(key), 1, n) : n \in 0..(keyLength - 1)}

\* the history after set(key, ...): each component of the key is appended at
\* the node of its prefix unless it is recorded there
Inserted(h, key) ==
    [p \in DOMAIN h \cup PrefixesOf(key) |->
        IF p \in PrefixesOf(key) /\ ~InSeq(Norm(key)[Len(p) + 1], At(h, p))
        THEN Append(At(h, p), Norm(key)[Len(p) + 1])
        ELSE At(h, p)]

\* the history after delete(key): the last component of the key leaves the
\* node of its prefix
Removed(h, key) ==
    [p \in DOMAIN h |->
        IF p = SubSeq(Norm(key), 1, keyLength - 1)
        THEN SelectSeq(h[p], LAMBDA c : c # Norm(key)[keyLength])
        ELSE h[p]]

LogKeys == {setLog[i][1] : i \in 1..Len(setLog)}

----------------------------------------------------------------------------
(* The state machine: one action per call *)

Init ==
    /\ status = "none"
    /\ keyLength = 0
    /\ root = EmptyMap
    /\ op = "none"
    /\ ret = Undefined
    /\ pre = FALSE
    /\ setLog = <<>>
    /\ distinctSets = TRUE
    /\ seen = NoHistory
    /\ live = NoHistory

hist == <<setLog, distinctSets, seen, live>>

\* a constructor that rejects negative key lengths only
constructorAcceptsZero(depth) ==
    /\ status = "none"
    /\ op' = "constructor"
    /\ pre' = FALSE
    /\ IF depth < 0
       THEN /\ status' = "threw"
            /\ ret' = Thrown
            /\ UNCHANGED <<keyLength, root>>
       ELSE /\ status' = "live"
            /\ ret' = This
            /\ keyLength' = depth
            /\ root' = EmptyMap

\* new FixedDepthTreeMap(depth): throws when depth < 1
constructor(depth) ==
    /\ status = "none"
    /\ op' = "constructor"
    /\ pre' = FALSE
    /\ IF depth < 1
       THEN /\ status' = "threw"
            /\ ret' = Thrown
            /\ UNCHANGED <<keyLength, root>>
       ELSE /\ status' = "live"
            /\ ret' = This
            /\ keyLength' = depth
            /\ root' = EmptyMap

clear ==
    /\ status = "live"
    /\ root' = clearResult(root)
    /\ op' = "clear"
    /\ pre' = (root # EmptyMap)
    /\ ret' = Undefined
    /\ UNCHANGED <<status, keyLength>>

delete(key) ==
    /\ status = "live"
    /\ LET r == deleteResult(root, key)
       IN  root' = r.tree /\ ret' = r.ret
    /\ op' = "delete"
    /\ pre' = hasResult(root, key).ret.b
    /\ UNCHANGED <<status, keyLength>>

\* the calls that only read: what they return is getResult(root, key).ret and
\* so on, a function of the state they are made in
get(key) ==
    /\ status = "live"
    /\ root' = getResult(root, key).tree
    /\ UNCHANGED <<status, keyLength, op, ret, pre>>

has(key) ==
    /\ status = "live"
    /\ root' = hasResult(root, key).tree
    /\ UNCHANGED <<status, keyLength, op, ret, pre>>

set(key, value) ==
    /\ status = "live"
    /\ root' = setResult(root, key, value)
    /\ op' = "set"
    /\ pre' = hasResult(root, key).ret.b
    /\ ret' = This
    /\ UNCHANGED <<status, keyLength>>

\* get size(): returns sizeResult(root)
size ==
    /\ status = "live"
    /\ UNCHANGED <<status, keyLength, root, op, ret, pre>>

\* entries(), traversed to its end: yields entriesResult(root)
entries ==
    /\ status = "live"
    /\ UNCHANGED <<status, keyLength, root, op, ret, pre>>

\* the tree stays within cap Map entries: the guard that keeps the model finite
Within(cap) == Cells(root', 0) <= cap

\* The calls on one map, with the history variables left alone
Next ==
    \/ \E depth \in InvalidDepths \cup ValidDepths : constructor(depth) /\ UNCHANGED hist
    \/ clear /\ UNCHANGED hist
    \/ \E key \in KeysOf(keyLength) : delete(key) /\ UNCHANGED hist
    \/ \E key \in KeysOf(keyLength) : get(key) /\ UNCHANGED hist
    \/ \E key \in KeysOf(keyLength) : has(key) /\ UNCHANGED hist
    \/ \E key \in KeysOf(keyLength), value \in Values :
          set(key, value) /\ Within(MaxCells) /\ UNCHANGED hist
    \/ size /\ UNCHANGED hist
    \/ entries /\ UNCHANGED hist

Spec == Init /\ [][Next]_vars

\* The calls that fill a map, with the set calls made since the map was empty
\* recorded in setLog for as long as their keys are pairwise distinct
LogSet(key, value) ==
    IF distinctSets /\ Norm(key) \notin LogKeys
    THEN setLog' = Append(setLog, <<Norm(key), value>>) /\ distinctSets' = TRUE
    ELSE setLog' = <<>> /\ distinctSets' = FALSE

LogEmpty == setLog' = <<>> /\ distinctSets' = TRUE

NextLog ==
    \/ \E depth \in InvalidDepths \cup ValidDepths :
          constructor(depth) /\ LogEmpty /\ UNCHANGED <<seen, live>>
    \/ clear /\ LogEmpty /\ UNCHANGED <<seen, live>>
    \/ \E key \in KeysOf(keyLength), value \in Values :
          set(key, value) /\ Within(MaxLogCells) /\ LogSet(key, value)
              /\ UNCHANGED <<seen, live>>
    \/ entries /\ UNCHANGED hist

SpecLog == Init /\ [][NextLog]_vars

\* The calls that change a map, with the components of every node recorded in
\* the order they were first seen (seen) and in the order of the insertions
\* that no delete has undone since (live). The order in which
\* entries yields keys does not depend on the values stored: one value is set.
\* Keys are passed with exactly keyLength components.
OrderValues == {Str("X")}
OrderDepths == 1..MaxOrderDepth

NextOrder ==
    \/ \E depth \in InvalidDepths \cup OrderDepths :
          constructor(depth) /\ seen' = NoHistory /\ live' = NoHistory
              /\ UNCHANGED <<setLog, distinctSets>>
    \/ clear /\ seen' = NoHistory /\ live' = NoHistory
          /\ UNCHANGED <<setLog, distinctSets>>
    \/ \E key \in NormKeys :
          delete(key) /\ live' = Removed(live, key)
              /\ UNCHANGED <<setLog, distinctSets, seen>>
    \/ \E key \in NormKeys, value \in OrderValues :
          set(key, value) /\ Within(MaxOrderCells)
              /\ seen' = Inserted(seen, key) /\ live' = Inserted(live, key)
              /\ UNCHANGED <<setLog, distinctSets>>
    \/ entries /\ UNCHANGED hist

SpecOrder == Init /\ [][NextOrder]_vars

\* The calls that build the tree, take it apart and look keys up in it, made
\* with keys of exactly keyLength components
NextNodes ==
    \/ \E depth \in InvalidDepths \cup ValidDepths : constructor(depth) /\ UNCHANGED hist
    \/ clear /\ UNCHANGED hist
    \/ \E key \in NormKeys : delete(key) /\ UNCHANGED hist
    \/ \E key \in NormKeys : get(key) /\ UNCHANGED hist
    \/ \E key \in NormKeys : has(key) /\ UNCHANGED hist
    \/ \E key \in NormKeys, value \in Values :
          set(key, value) /\ Within(MaxCells) /\ UNCHANGED hist

SpecNodes == Init /\ [][NextNodes]_vars

\* The calls on a map that stores the values that are falsy or look absent,
\* with the leaf components set and not deleted or cleared since recorded in live
FalsyValues == {Undefined, Bool(FALSE), Num(0)}

NextFalsy ==
    \/ \E depth \in InvalidDepths \cup OrderDepths :
          constructor(depth) /\ live' = NoHistory
              /\ UNCHANGED <<setLog, distinctSets, seen>>
    \/ clear /\ live' = NoHistory /\ UNCHANGED <<setLog, distinctSets, seen>>
    \/ \E key \in NormKeys :
          delete(key) /\ live' = Removed(live, key)
              /\ UNCHANGED <<setLog, distinctSets, seen>>
    \/ \E key \in NormKeys : get(key) /\ UNCHANGED hist
    \/ \E key \in NormKeys : has(key) /\ UNCHANGED hist
    \/ \E key \in NormKeys, value \in FalsyValues :
          set(key, value) /\ Within(MaxFalsyCells) /\ live' = Inserted(live, key)
              /\ UNCHANGED <<setLog, distinctSets, seen>>
    \/ size /\ UNCHANGED hist
    \/ entries /\ UNCHANGED hist

SpecFalsy == Init /\ [][NextFalsy]_vars

----------------------------------------------------------------------------
(* Claims. Each property of a call is stated for every reachable state the
   call can be made in and every key and value it can be made with: the tree
   and the result of the call are setResult(root, key, value) and so on, as in
   the actions. *)

Live == status = "live"
Has(tree, key) == hasResult(tree, key).ret = Bool(TRUE)
Get(tree, key) == getResult(tree, key).ret
Size(tree) == sizeResult(tree)
\* the normalised keys that has reports present
Stored(tree) == {key \in NormKeys : Has(tree, key)}
\* the keys entries yields, in order
KeysYielded(tree) ==
    [i \in 1..Len(entriesResult(tree).items) |-> entriesResult(tree).items[i][1]]

\* C1: after set(k1, v), every key k2 with the same first keyLength components
\* as k1 (a missing component being undefined) has get(k2) = v and has(k2) true.
C1_SetThenGet ==
    Live =>
        \A k1 \in KeysOf(keyLength), v \in Values :
            LET tree == setResult(root, k1, v)
            IN  \A k2 \in KeysOf(keyLength) :
                    Norm(k2) = Norm(k1) => Get(tree, k2) = v /\ Has(tree, k2)

\* a set has just stored a value that a longer key array reads back
C1_Witness ==
    /\ Live /\ op = "set" /\ keyLength >= 2
    /\ \E k2 \in KeysOf(keyLength) : Len(k2) > keyLength /\ Get(root, k2) = Str("X")

\* C2: size is the number of distinct normalised keys that has reports present;
\* set of an absent key adds 1 to it and set of a present key adds 0; Maps that
\* are intermediate or empty are not counted.
C2_SizeCountsKeys ==
    Live =>
        /\ Size(root) = Num(Cardinality(Stored(root)))
        /\ \A k \in KeysOf(keyLength), v \in Values :
              Size(setResult(root, k, v)) =
                  Num(Size(root).n + (IF Has(root, k) THEN 0 ELSE 1))

\* a map of key length 3 that holds one key next to a branch emptied by delete
C2_Witness ==
    /\ Live /\ keyLength = 3 /\ op = "set" /\ ~pre
    /\ Size(root) = Num(1) /\ Cells(root, 0) = 4

\* C3: delete(k) returns true exactly when has(k) was true; afterwards has(k)
\* is false and get(k) undefined; size drops by 1 when it returned true; when
\* it returned false the tree is unchanged, and so are size and every get/has.
C3_Delete ==
    Live =>
        \A k \in KeysOf(keyLength) :
            LET r == deleteResult(root, k)
            IN  /\ r.ret = hasResult(root, k).ret
                /\ ~Has(r.tree, k)
                /\ Get(r.tree, k) = Undefined
                /\ r.ret = Bool(TRUE) => Size(r.tree) = Num(Size(root).n - 1)
                /\ r.ret = Bool(FALSE) => r.tree = root /\ Size(r.tree) = Size(root)

\* a delete has just removed a key and left another one stored
C3_Witness ==
    /\ Live /\ op = "delete" /\ ret = Bool(TRUE) /\ pre
    /\ keyLength >= 2 /\ Size(root) = Num(1)

\* C4: set, get, has and delete called with k return what they return, and
\* leave the tree they leave, when called with norm(k).
C4_SameNormalisation ==
    Live =>
        \A k \in KeysOf(keyLength) :
            /\ getResult(root, k) = getResult(root, Norm(k))
            /\ hasResult(root, k) = hasResult(root, Norm(k))
            /\ deleteResult(root, k) = deleteResult(root, Norm(k))
            /\ \A v \in Values : setResult(root, k, v) = setResult(root, Norm(k), v)

\* the empty key array and a key array longer than keyLength both address
\* stored entries
C4_Witness ==
    /\ Live /\ keyLength >= 2 /\ op = "set"
    /\ Has(root, <<>>)
    /\ \E k \in KeysOf(keyLength) :
          Len(k) > keyLength /\ Norm(k) # Norm(<<>>) /\ Has(root, k)

\* C5: after clear, size is 0, entries yields nothing, has is false and get
\* undefined for every key, and the tree is that of a new map: no Map is left.
C5_Clear ==
    Live =>
        LET tree == clearResult(root)
        IN  /\ Size(tree) = Num(0)
            /\ entriesResult(tree) = Iter(<<>>)
            /\ \A k \in KeysOf(keyLength) : ~Has(tree, k) /\ Get(tree, k) = Undefined
            /\ tree = EmptyMap

\* a clear has just emptied a map that held an entry
C5_Witness == Live /\ op = "clear" /\ pre /\ keyLength >= 2 /\ root = EmptyMap

\* C6: a traversal of entries ends without throwing and yields one pair for
\* each stored key and nothing else: keys of keyLength components, no key
\* twice, has true and get equal to the value yielded, as many pairs as size.
\* (A second traversal yields the same: entries leaves the tree as it is.)
C6_EntriesExact ==
    Live =>
        LET e == entriesResult(root)
        IN  /\ e.t = "iterator"
            /\ \A i \in 1..Len(e.items) :
                  /\ Len(e.items[i][1]) = keyLength
                  /\ Has(root, e.items[i][1])
                  /\ Get(root, e.items[i][1]) = e.items[i][2]
                  /\ \A j \in 1..Len(e.items) : e.items[j][1] = e.items[i][1] => j = i
            /\ Num(Len(e.items)) = Size(root)
            /\ {e.items[i][1] : i \in 1..Len(e.items)} = Stored(root)

\* a map of key length 3 yields two pairs
C6_Witness == Live /\ keyLength = 3 /\ Len(entriesResult(root).items) = 2

\* C9: set(k, v2) on a present key k leaves the sequence of keys that entries
\* yields and size as they were, makes get(k) = v2, and leaves get and has of
\* every other key as they were.
C9_Overwrite ==
    Live =>
        \A k \in KeysOf(keyLength), v2 \in Values :
            Has(root, k) =>
                LET tree == setResult(root, k, v2)
                IN  /\ KeysYielded(tree) = KeysYielded(root)
                    /\ Size(tree) = Size(root)
                    /\ Get(tree, k) = v2
                    /\ \A k2 \in NormKeys :
                          k2 # Norm(k) =>
                              /\ Get(tree, k2) = Get(root, k2)
                              /\ Has(tree, k2) = Has(root, k2)

\* a set has just replaced the value of the first of two stored keys
C9_Witness ==
    /\ Live /\ op = "set" /\ pre /\ Size(root) = Num(2)
    /\ entriesResult(root).items[1][2] = Undefined
    /\ entriesResult(root).items[2][2] = Str("X")

\* C10: a constructor call with a key length below 1 throws and leaves no map
\* to call; with a key length of 1 or more it yields an empty map of that key
\* length, and the key length of a map never changes.
C10_Constructor ==
    [][/\ \A depth \in InvalidDepths \cup ValidDepths :
            constructor(depth) =>
                IF depth < 1
                THEN status' = "threw" /\ ret' = Thrown
                ELSE /\ status' = "live" /\ keyLength' = depth
                     /\ (Size(root) = Num(0))'
                     /\ (entriesResult(root) = Iter(<<>>))'
       /\ status = "live" => status' = "live" /\ keyLength' = keyLength
       /\ status # "threw"]_vars

\* the constructor has thrown
C10_Witness == status = "threw" /\ op = "constructor" /\ ret = Thrown

\* C7: after set calls on pairwise distinct keys made on an empty map, the
\* i-th pair that entries yields is the i-th pair set: (norm(k_i), v_i).
C7_InsertionOrder ==
    Live /\ distinctSets => entriesResult(root) = Iter(setLog)

\* where x and y stand in the sequence s of distinct components
Position(s, x) == CHOOSE i \in 1..Len(s) : s[i] = x
Earlier(s, x, y) == InSeq(x, s) /\ InSeq(y, s) /\ Position(s, x) < Position(s, y)

\* the first position at which two different keys of keyLength components differ
FirstDifference(k1, k2) == CHOOSE d \in 1..keyLength :
    k1[d] # k2[d] /\ \A c \in 1..(d - 1) : k1[c] = k2[c]

\* the pairs that share a key prefix are yielded one after the other
PrefixesContiguous(keys) ==
    \A n \in 1..(keyLength - 1), i, j, k \in 1..Len(keys) :
        i < j /\ j < k /\ SubSeq(keys[i], 1, n) = SubSeq(keys[k], 1, n)
            => SubSeq(keys[j], 1, n) = SubSeq(keys[i], 1, n)

\* of two keys yielded, the one whose component at their first difference
\* comes earlier in the history h of their common node is yielded first
OrderedBy(h, keys) ==
    \A i, j \in 1..Len(keys) :
        i # j =>
            LET d == FirstDifference(keys[i], keys[j])
                node == SubSeq(keys[i], 1, d - 1)
            IN  Earlier(At(h, node), keys[i][d], keys[j][d]) => i < j

\* C8 as stated: entries yields the pairs depth first, the pairs of a prefix
\* together, the children of each node in the order in which their component
\* was first seen at that node.
C8_FirstSeenOrder ==
    Live => PrefixesContiguous(KeysYielded(root)) /\ OrderedBy(seen, KeysYielded(root))

\* C8 amended: the same, the children of each node in the order of their
\* insertion, where a leaf deleted and set again is inserted anew.
C8_InsertionOrder ==
    Live =>
        /\ PrefixesContiguous(KeysYielded(root))
        /\ OrderedBy(live, KeysYielded(root))
        /\ \A i \in 1..Len(KeysYielded(root)) :
              LET key == KeysYielded(root)[i]
              IN  InSeq(key[keyLength], At(live, SubSeq(key, 1, keyLength - 1)))

\* two keys are stored in one branch of a map of key length 2 or more, the one
\* first seen there later yielded first, after a delete and a set of the other
C8_Witness ==
    /\ Live /\ keyLength >= 2 /\ op = "set"
    /\ \E i, j \in 1..Len(KeysYielded(root)) :
          LET ki == KeysYielded(root)[i]
              kj == KeysYielded(root)[j]
              node == SubSeq(ki, 1, keyLength - 1)
          IN  /\ i < j
              /\ node = SubSeq(kj, 1, keyLength - 1)
              /\ Earlier(At(seen, node), kj[keyLength], ki[keyLength])

\* the key is recorded as set and not deleted or cleared since
SetAndKept(key) ==
    InSeq(key[keyLength], At(live, SubSeq(key, 1, keyLength - 1)))

\* C11: after set(k, v) with v undefined, false or 0, has(k) is true, size
\* counts the entry and entries yields (k, v), while get(k) returns the falsy
\* v; and has(k) is true exactly for the keys set and not deleted or cleared
\* since, whatever value they hold.
C11_HasIsExistence ==
    Live =>
        /\ \A k \in NormKeys, v \in FalsyValues :
              LET tree == setResult(root, k, v)
              IN  /\ Has(tree, k)
                  /\ Get(tree, k) = v /\ ~Truthy(Get(tree, k))
                  /\ Size(tree) = Num(Cardinality(Stored(tree)))
                  /\ Size(tree) = Num(Size(root).n + (IF Has(root, k) THEN 0 ELSE 1))
                  /\ InSeq(<<k, v>>, entriesResult(tree).items)
        /\ \A k \in NormKeys : Has(root, k) <=> SetAndKept(k)

\* a map of key length 2 holds undefined under one key and 0 under another,
\* both reported present by has, next to a key that is absent
C11_Witness ==
    /\ Live /\ keyLength = 2 /\ Size(root) = Num(2)
    /\ \A v \in {Undefined, Num(0)} :
          \E k \in NormKeys : Has(root, k) /\ Get(root, k) = v
    /\ \E k \in NormKeys : ~Has(root, k) /\ Get(root, k) = Undefined

\* C12: a map of key length 1 is the root Map used flat: every call reads
\* component 0 of the key only and works on the root Map itself, no Map is
\* created or walked below the root, size is the entry count of the root and
\* entries yields the root's entries in its insertion order, each key an array
\* of one component.
C12_FlatAtDepthOne ==
    Live /\ keyLength = 1 =>
        /\ \A i \in 1..Len(root.es) : root.es[i].value.t # "map"
        /\ \A k \in KeysOf(keyLength) :
              LET c == KeyAt(k, 0)
              IN  /\ \A create \in BOOLEAN :
                        getBranch(root, k, create) =
                            [tree |-> root, path |-> <<>>, branch |-> root]
                  /\ getResult(root, k) = [tree |-> root, ret |-> MapGet(root, c)]
                  /\ hasResult(root, k) = [tree |-> root, ret |-> Bool(MapHas(root, c))]
                  /\ deleteResult(root, k) =
                        [tree |-> MapDelete(root, c), ret |-> Bool(MapHas(root, c))]
                  /\ \A v \in Values : setResult(root, k, v) = MapSet(root, c, v)
        /\ clearResult(root) = EmptyMap
        /\ Size(root) = Num(MapSize(root))
        /\ entriesResult(root) =
              Iter([i \in 1..Len(root.es) |-> <<(<<root.es[i].key>>), root.es[i].value>>])

\* a map of key length 1 holds two keys, the key [undefined] inserted first
C12_Witness ==
    /\ Live /\ keyLength = 1 /\ op = "set" /\ ~pre
    /\ Size(root) = Num(2) /\ root.es[1].key = Undefined

\* C13: a KeyConstrainedMap whose inner map is in any reachable state returns
\* from get and entries what the inner FixedDepthTreeMap returns, and its set
\* leaves the inner map as the inner set does: get(k) after set(k, v) returns
\* v, and the value read at every other key path is as before.
C13_WrapperForwards ==
    Live =>
        /\ kcmEntries(root) = entriesResult(root)
        /\ \A k \in NormKeys :
              /\ kcmGet(root, k) = Get(root, k)
              /\ \A v \in Values :
                    LET w == kcmSet(root, k, v)
                    IN  /\ w.map = setResult(root, k, v)
                        /\ kcmGet(w.map, k) = v
                        /\ kcmEntries(w.map) = entriesResult(setResult(root, k, v))
                        /\ \A k2 \in NormKeys :
                              k2 # Norm(k) => kcmGet(w.map, k2) = kcmGet(root, k2)

\* two key paths of a map of key length 2 hold different values after a set
C13_Witness ==
    /\ Live /\ keyLength = 2 /\ op = "set"
    /\ \E k, k2 \in NormKeys :
          /\ k[1] # k2[1]
          /\ kcmGet(root, k) = Str("X") /\ Has(root, k2) /\ kcmGet(root, k2) = Undefined

\* every value that getBranch walks into and depthFirstIterate iterates
\* over, from node at level down to the branches, is a Map: no method is
\* called on a value that lacks it
RECURSIVE MapsDownToBranches(_, _)
MapsDownToBranches(node, level) ==
    /\ node.t = "map"
    /\ level < keyLength - 1 =>
          \A i \in 1..Len(node.es) : MapsDownToBranches(node.es[i].value, level + 1)

\* C14: on a constructed map no call raises, in any reachable state and for
\* any key: size returns a number, entries, keys, values and forEach run to
\* their end, get, has, delete, set and clear return their values, and the
\* maxKeyLength that size and entries pass to depthFirstIterate is never 0.
C14_NoCallRaises ==
    Live =>
        /\ keyLength >= 1 /\ (keyLength # 1 => keyLength - 1 >= 1)
        /\ MapsDownToBranches(root, 0)
        /\ Size(root).t = "num"
        /\ entriesResult(root).t = "iterator"
        /\ keysResult(root).t = "iterator"
        /\ valuesResult(root).t = "iterator"
        /\ forEachResult(root).t = "iterator"
        /\ clearResult(root).t = "map"
        /\ \A k \in KeysOf(keyLength) :
              /\ hasResult(root, k).ret.t = "bool"
              /\ deleteResult(root, k).ret.t = "bool"
              /\ getResult(root, k).ret \in Values
              /\ \A v \in Values : MapsDownToBranches(setResult(root, k, v), 0)

\* size, entries, keys, values and forEach return on a map of key length 1
\* that holds a key: size does not call depthFirstIterate there
C14_Witness ==
    /\ Live /\ keyLength = 1 /\ op = "set" /\ Size(root) = Num(1)
    /\ forEachResult(root) = Iter(<<(<<Str("X"), <<Str("a")>> >>)>>)

\* the paths of the nodes of the tree: the root, the intermediate Maps and the
\* branches, empty ones included
RECURSIVE NodePaths(_, _)
NodePaths(node, path) ==
    {path} \cup
        (IF Len(path) < keyLength - 1
         THEN UNION {NodePaths(node.es[i].value, Append(path, node.es[i].key)) :
                        i \in 1..Len(node.es)}
         ELSE {})

Nodes(tree) == NodePaths(tree, <<>>)

\* C15: get and has leave the whole tree unchanged (size and entries only
\* read it); delete creates no node; where the prefix of a key has no branch,
\* get returns undefined, has false and delete false, the tree left as it is;
\* set adds exactly the missing nodes along the first keyLength - 1 components
\* of the key, each holding afterwards nothing but the next component of the
\* key, and leaves every node off that path as it was.
C15_OnlySetAddsNodes ==
    Live =>
        \A k \in NormKeys :
            /\ getResult(root, k).tree = root
            /\ hasResult(root, k).tree = root
            /\ Nodes(deleteResult(root, k).tree) = Nodes(root)
            /\ SubSeq(Norm(k), 1, keyLength - 1) \notin Nodes(root) =>
                  /\ getResult(root, k) = [tree |-> root, ret |-> Undefined]
                  /\ hasResult(root, k) = [tree |-> root, ret |-> Bool(FALSE)]
                  /\ deleteResult(root, k) = [tree |-> root, ret |-> Bool(FALSE)]
            /\ \A v \in Values :
                  LET tree == setResult(root, k, v)
                  IN  /\ Nodes(tree) = Nodes(root) \cup PrefixesOf(k)
                      /\ \A p \in PrefixesOf(k) \ Nodes(root) :
                            /\ Len(NodeAt(tree, p).es) = 1
                            /\ NodeAt(tree, p).es[1].key = Norm(k)[Len(p) + 1]
                      /\ \A p \in Nodes(root) \ PrefixesOf(k) :
                            NodeAt(tree, p) = NodeAt(root, p)

\* a set of an absent key has left a map of key length 2 with two branches
\* next to the root, each holding one key
C15_Witness ==
    /\ Live /\ keyLength = 2 /\ op = "set" /\ ~pre
    /\ Cardinality(Nodes(root)) = 3 /\ Size(root) = Num(2)
    /\ \A p \in Nodes(root) \ {<<>>} : Len(NodeAt(root, p).es) = 1

\* the branches of the tree that hold no leaf
DeadBranches(tree) ==
    {p \in Nodes(tree) : Len(p) = keyLength - 1 /\ NodeAt(tree, p) = EmptyMap}

\* C16: delete leaves every node in the tree, the branch it empties and the
\* ancestors of that branch included; no node leaves the tree under set, get,
\* has or delete, and clear leaves the root alone; a branch that holds no leaf
\* adds nothing to size, no pair to entries, and has is false and get
\* undefined for every key under it.
C16_DeleteNeverPrunes ==
    Live =>
        /\ \A k \in NormKeys :
              /\ Nodes(deleteResult(root, k).tree) = Nodes(root)
              /\ Has(root, k) /\ MapSize(getBranch(root, k, FALSE).branch) = 1 =>
                    SubSeq(Norm(k), 1, keyLength - 1) \in
                        DeadBranches(deleteResult(root, k).tree)
              /\ Nodes(root) \subseteq Nodes(getResult(root, k).tree)
              /\ Nodes(root) \subseteq Nodes(hasResult(root, k).tree)
              /\ \A v \in Values : Nodes(root) \subseteq Nodes(setResult(root, k, v))
        /\ Nodes(clearResult(root)) = {<<>>}
        /\ Size(root) = Num(Len(entriesResult(root).items))
        /\ \A p \in DeadBranches(root) :
              /\ \A i \in 1..Len(KeysYielded(root)) :
                    SubSeq(KeysYielded(root)[i], 1, keyLength - 1) # p
              /\ \A k \in NormKeys :
                    SubSeq(k, 1, keyLength - 1) = p => ~Has(root, k) /\ Get(root, k) = Undefined

\* a delete has just emptied the one branch of a map of key length 3: the
\* branch and its parent are still in the tree
C16_Witness ==
    /\ Live /\ keyLength = 3 /\ op = "delete" /\ pre /\ ret = Bool(TRUE)
    /\ Size(root) = Num(0) /\ Cardinality(Nodes(root)) = 3
    /\ DeadBranches(root) # {}

\* node, at depth level, has the shape of its depth: above the branches every
\* component maps to a child node of the same kind, in a branch (depth
\* keyLength - 1) every component maps to a stored value
RECURSIVE WellShaped(_, _)
WellShaped(node, level) ==
    /\ node.t = "map"
    /\ \A i \in 1..Len(node.es) :
          IF level < keyLength - 1
          THEN WellShaped(node.es[i].value, level + 1)
          ELSE node.es[i].value \in Values

\* C17: the tree of a map of key length N has the shape of its depth in every
\* state that set, delete and clear reach, and each of them keeps it: nodes at
\* depth below N - 1 hold child nodes only, nodes at depth N - 1 hold stored
\* values only, so each stored leaf is the entry at a path of exactly N
\* components from the root.
C17_TreeShape ==
    Live =>
        /\ WellShaped(root, 0)
        /\ WellShaped(clearResult(root), 0)
        /\ \A k \in NormKeys :
              /\ WellShaped(deleteResult(root, k).tree, 0)
              /\ \A v \in Values : WellShaped(setResult(root, k, v), 0)
        /\ \A i \in 1..Len(entriesResult(root).items) :
              LET key == entriesResult(root).items[i][1]
                  branch == NodeAt(root, SubSeq(key, 1, keyLength - 1))
              IN  /\ Len(key) = keyLength
                  /\ MapHas(branch, key[keyLength])
                  /\ MapGet(branch, key[keyLength]) = entriesResult(root).items[i][2]

\* a map of key length 3 holds two leaves in one branch, below two levels of
\* nodes, after a set
C17_Witness ==
    /\ Live /\ keyLength = 3 /\ op = "set" /\ Cells(root, 0) = 4
    /\ Size(root) = Num(2) /\ Cardinality(Nodes(root)) = 3

\* C18: set(k, v) and delete(k) leave get(k2) and has(k2) as they were for
\* every key k2 that differs from k in one of its first keyLength components,
\* whether k2 shares a prefix with k, differs in the last component only or
\* in the first only. (Keys are taken with keyLength components: a key array
\* of another length acts as its normalised key, C4.)
C18_KeysIndependent ==
    Live =>
        \A k \in NormKeys :
            LET deleted == deleteResult(root, k).tree
            IN  /\ \A k2 \in NormKeys \ {k} :
                      /\ Get(deleted, k2) = Get(root, k2)
                      /\ Has(deleted, k2) = Has(root, k2)
                /\ \A v \in Values :
                      LET tree == setResult(root, k, v)
                      IN  \A k2 \in NormKeys \ {k} :
                              /\ Get(tree, k2) = Get(root, k2)
                              /\ Has(tree, k2) = Has(root, k2)

\* a delete has just removed one of the two keys of the only branch of a map
\* of key length 2: the key that differs in the last component is still there
C18_Witness ==
    /\ Live /\ keyLength = 2 /\ op = "delete" /\ pre /\ ret = Bool(TRUE)
    /\ Cardinality(Nodes(root)) = 2 /\ Size(root) = Num(1)
    /\ \E k2 \in NormKeys : Has(root, k2) /\ Get(root, k2) = Str("X")

\* the components of a node, in the order of its Map
ComponentsOf(node) == [i \in 1..Len(node.es) |-> node.es[i].key]

\* the sequence ks without the key k
Without(ks, k) == SelectSeq(ks, LAMBDA x : x # k)

\* the path of the branch of a key of keyLength components
BranchOf(k) == SubSeq(k, 1, keyLength - 1)

\* C19: a key deleted and set again is yielded after every other key stored
\* in its branch, while every node above the branches keeps the order in which
\* its components were first seen, the component of a branch that a delete
\* emptied included: the other keys are yielded in the order they had, and a
\* key set into a branch that exists, empty or not, is yielded before the keys
\* of the branches that come later in the tree, whenever those were set.
C19_ReinsertAsymmetry ==
    Live =>
        /\ \A p \in Nodes(root) :
              Len(p) < keyLength - 1 => ComponentsOf(NodeAt(root, p)) = At(seen, p)
        /\ \A k \in NormKeys, v \in OrderValues :
              LET deleted == deleteResult(root, k).tree
                  tree == setResult(deleted, k, v)
                  ks == KeysYielded(tree)
              IN  /\ Has(root, k) =>
                        /\ Without(ks, k) = Without(KeysYielded(root), k)
                        /\ \A k2 \in Stored(root) \ {k} :
                              BranchOf(k2) = BranchOf(k) => Earlier(ks, k2, k)
                  /\ \A p \in Nodes(root) :
                        Len(p) < keyLength - 1 =>
                            LET before == ComponentsOf(NodeAt(root, p))
                                after == ComponentsOf(NodeAt(tree, p))
                            IN  /\ ComponentsOf(NodeAt(deleted, p)) = before
                                /\ SubSeq(after, 1, Len(before)) = before
                                /\ BranchOf(k) \in Nodes(root) => after = before
                  /\ BranchOf(k) \in Nodes(root) =>
                        \A k2 \in Stored(root) \ {k} :
                            BranchOf(k2) # BranchOf(k) =>
                                LET d == FirstDifference(k, k2)
                                    node == NodeAt(root, SubSeq(k, 1, d - 1))
                                IN  Earlier(ks, k, k2) <=>
                                        Earlier(ComponentsOf(node), k[d], k2[d])

\* a delete has just emptied the first branch of a map of key length 2 whose
\* second branch holds a key: a key set now into the first branch is yielded
\* before the key of the second
C19_Witness ==
    /\ Live /\ keyLength = 2 /\ op = "delete" /\ pre /\ ret = Bool(TRUE)
    /\ Len(root.es) = 2
    /\ root.es[1].value = EmptyMap /\ root.es[2].value # EmptyMap
    /\ \E k \in NormKeys, v \in OrderValues :
          /\ BranchOf(k) = <<root.es[1].key>>
          /\ KeysYielded(setResult(root, k, v))[1] = k
          /\ Len(KeysYielded(setResult(root, k, v))) >= 2

\* C20: an UntypedTreeMap and a FixedDepthTreeMap of the same key length that
\* received the same calls hold the same tree, and every call returns the
\* same from both, or raises from both: get, has, delete, set, clear, entries
\* and size, size on a map of key length 1 that holds an entry included.
C20_UntypedEquivalent ==
    Live =>
        /\ untypedClearResult(root) = clearResult(root)
        /\ \A k \in KeysOf(keyLength) :
              /\ untypedGetResult(root, k) = getResult(root, k)
              /\ untypedHasResult(root, k) = hasResult(root, k)
              /\ untypedDeleteResult(root, k) = deleteResult(root, k)
              /\ \A v \in Values : untypedSetResult(root, k, v) = setResult(root, k, v)
        /\ untypedEntriesResult(root) = entriesResult(root)
        /\ untypedSizeResult(root) = sizeResult(root)

\* the part of C20 that holds: the same for key lengths of 2 and more, and for
\* every call but size on a map of key length 1
C20_EquivalentButSizeAtOne ==
    Live =>
        /\ untypedEntriesResult(root) = entriesResult(root)
        /\ keyLength >= 2 \/ root = EmptyMap => untypedSizeResult(root) = sizeResult(root)
        /\ keyLength = 1 /\ root # EmptyMap =>
              untypedSizeResult(root) = Thrown /\ sizeResult(root) = Num(MapSize(root))

====
